---- MODULE Spec2Model ----
(***************************************************************************)
(* Model of SessionStore (src/src/session_store.rs): the DashMap of        *)
(* SessionData keyed by session id, the optional database client, the      *)
(* sweep timers, and the store's operations.                               *)
(***************************************************************************)
EXTENDS Integers, Sequences, FiniteSets, TLC

\* ---------------------------------------------------------------- bounds
MaxTime == 3
\* the writes to the map that concurrent callers make in one behaviour
MaxWrites == 3
\* the last instant of the clock where the sweeps are followed
MaxSweepTime == 7

\* ------------------------------------------------------- small input sets
Ids == {"A", "B"}
\* the id of the scenarios that follow one session
OneId == {"A"}
Keys == {"k"}
Vals == {11, 22}
\* the tasks that call the store at the same time
Callers == {"c1", "c2"}

\* ------------------------------------------------- configuration, timers
\* self.config.memory_lifespan, in clock units
MemoryLifespan == 1
\* the session lifespan SessionData::new gives `expires`
Lifespan == 2
\* the clock units in one unit of OffsetDateTime::unix_timestamp()
Resolution == 2
\* 1.hours() and 6.hours() of SessionStore::new
FirstExpirySweep == 1
FirstDatabaseExpirySweep == 6
\* the configured sweep intervals, in the same unit
MemorySweepInterval == 2
DatabaseSweepInterval == 3

VARIABLES
    client,   \* TRUE iff self.client is Some(_)
    inner,    \* the DashMap: a function from the resident ids to SessionData
    db,       \* the rows of the backend table: a function from ids to rows
    timers,   \* SessionTimers
    now,      \* OffsetDateTime::now_utc()
    last,     \* the last call: its name, its id argument, what it returned
              \* and what it saw (the record it found, the backend's answer)
    guard,    \* per id, the caller that holds the RefMut get_mut returned
    pc,       \* per caller, where it stands in its call
    call,     \* per caller, the call it is in, or the last one it finished
    writes    \* the number of writes to the map so far

svars == <<client, inner, db, timers, now, last>>
cvars == <<guard, pc, call, writes>>
vars == <<client, inner, db, timers, now, last, guard, pc, call, writes>>

\* --------------------------------------------------------- serialization
\* serde_json::to_string of a value: its digits
to_string(v) == IF v = 11 THEN <<"1", "1">> ELSE <<"2", "2">>

\* serde_json::from_str(..).ok(): Some(value) as <<value>>, None as <<>>
from_str(s) ==
    IF s = <<"1", "1">> THEN <<11>>
    ELSE IF s = <<"2", "2">> THEN <<22>>
    ELSE IF s = <<"1", "2">> THEN <<12>>
    ELSE IF s = <<"2", "1">> THEN <<21>>
    ELSE IF s = <<"1">> THEN <<1>>
    ELSE IF s = <<"2">> THEN <<2>>
    ELSE <<>>

\* a key that the HashMap does not hold
NoVal == <<>>

EmptyData == [k \in Keys |-> NoVal]

\* --------------------------------------------------- SessionData methods
SessionData_new(id, storable, t) ==
    [id |-> id, data |-> EmptyData, expires |-> t + Lifespan,
     autoremove |-> t + MemoryLifespan, destroy |-> FALSE, renew |-> FALSE,
     longterm |-> FALSE, storable |-> storable]

SessionData_validate(rec, t) == rec.expires > t

SessionData_renew(rec) == [rec EXCEPT !.renew = TRUE]

SessionData_destroy(rec) == [rec EXCEPT !.destroy = TRUE]

SessionData_set_longterm(rec, b) == [rec EXCEPT !.longterm = b]

SessionData_set_store(rec, b) == [rec EXCEPT !.storable = b]

SessionData_get(rec, key) == from_str(rec.data[key])

SessionData_set(rec, key, value) ==
    [rec EXCEPT !.data = [rec.data EXCEPT ![key] = to_string(value)]]

SessionData_remove(rec, key) ==
    [rec EXCEPT !.data = [rec.data EXCEPT ![key] = NoVal]]

SessionData_clear(rec) == [rec EXCEPT !.data = EmptyData]

\* -------------------------------------------------------------- the store
Unit == <<>>

Called(op, id, ret, saw) == [op |-> op, id |-> id, ret |-> ret, saw |-> saw]

\* a caller's call: its name and arguments, what it returned, the number of
\* writes the map had seen when it read or wrote, and whether get_mut found
\* the id
CallOf(op, id, key, val, ret, at) ==
    [op |-> op, id |-> id, key |-> key, val |-> val, ret |-> ret, at |-> at,
     found |-> id \in DOMAIN inner]

is_persistent == client

\* new with both sweeps due from the first request on
new_due_at_once(db_client) ==
    /\ client = db_client
    /\ inner = [i \in {} |-> 0]
    /\ db = [i \in {} |-> 0]
    /\ now = 0
    /\ timers = [last_expiry_sweep |-> now, last_database_expiry_sweep |-> now]
    /\ last = Called("new", "", Unit, Unit)
    /\ guard = [i \in Ids |-> "free"]
    /\ pc = [c \in Callers |-> "idle"]
    /\ call = [c \in Callers |-> CallOf("none", "", "", 0, Unit, 0)]
    /\ writes = 0

\* SessionStore::new(client, config)
new(db_client) ==
    /\ client = db_client
    /\ inner = [i \in {} |-> 0]
    /\ db = [i \in {} |-> 0]
    /\ now = 0
    /\ timers = [last_expiry_sweep |-> now + FirstExpirySweep,
                 last_database_expiry_sweep |-> now + FirstDatabaseExpirySweep]
    /\ last = Called("new", "", Unit, Unit)
    /\ guard = [i \in Ids |-> "free"]
    /\ pc = [c \in Callers |-> "idle"]
    /\ call = [c \in Callers |-> CallOf("none", "", "", 0, Unit, 0)]
    /\ writes = 0

\* a store without a database client
Init == new(FALSE)

\* a store with or without a database client
InitDb == \E c \in BOOLEAN : new(c)

\* the clock advances
Tick ==
    /\ now < MaxTime
    /\ now' = now + 1
    /\ last' = Called("tick", "", Unit, Unit)
    /\ UNCHANGED <<client, inner, db, timers>>

\* the session layer puts a new record into the map
insert(id, storable) ==
    /\ inner' = [i \in DOMAIN inner \cup {id} |->
                    IF i = id THEN SessionData_new(id, storable, now) ELSE inner[i]]
    /\ last' = Called("insert", id, Unit, Unit)
    /\ UNCHANGED <<client, db, timers, now>>

\* clear that empties the table as well as the map
clear_everything ==
    /\ inner' = [i \in {} |-> 0]
    /\ db' = [i \in {} |-> 0]
    /\ last' = Called("clear", "", Unit, Unit)
    /\ UNCHANGED <<client, timers, now>>

clear ==
    /\ inner' = [i \in {} |-> 0]
    /\ last' = Called("clear", "", Unit, Unit)
    /\ UNCHANGED <<client, db, timers, now>>

\* service_inner with `&&` for `||`: clears only what is expired and destroyed
service_inner_and(rec, t) ==
    LET cleared == IF ~SessionData_validate(rec, t) /\ rec.destroy
                   THEN [rec EXCEPT !.destroy = FALSE, !.longterm = FALSE,
                                    !.data = EmptyData]
                   ELSE rec
    IN [cleared EXCEPT !.autoremove = t + MemoryLifespan]

\* service_inner without the validate() test: expiry alone clears nothing
service_inner_destroy_only(rec, t) ==
    LET cleared == IF rec.destroy
                   THEN [rec EXCEPT !.destroy = FALSE, !.longterm = FALSE,
                                    !.data = EmptyData]
                   ELSE rec
    IN [cleared EXCEPT !.autoremove = t + MemoryLifespan]

\* service_inner with the autoremove refresh moved inside the if
service_inner_stale(rec, t) ==
    IF ~SessionData_validate(rec, t) \/ rec.destroy
    THEN [rec EXCEPT !.destroy = FALSE, !.longterm = FALSE, !.data = EmptyData,
                     !.autoremove = t + MemoryLifespan]
    ELSE rec

\* service that gives an expired record a new expiry
service_inner_revive(rec, t) ==
    IF ~SessionData_validate(rec, t) \/ rec.destroy
    THEN [rec EXCEPT !.destroy = FALSE, !.longterm = FALSE, !.data = EmptyData,
                     !.autoremove = t + MemoryLifespan,
                     !.expires = IF rec.expires > t THEN rec.expires ELSE t + Lifespan]
    ELSE [rec EXCEPT !.autoremove = t + MemoryLifespan]

\* lines 345-351: what service_session_data does to the record it found
service_inner(rec, t) ==
    LET cleared == IF ~SessionData_validate(rec, t) \/ rec.destroy
                   THEN [rec EXCEPT !.destroy = FALSE, !.longterm = FALSE,
                                    !.data = EmptyData]
                   ELSE rec
    IN [cleared EXCEPT !.autoremove = t + MemoryLifespan]

service_session_data(id) ==
    /\ IF id \in DOMAIN inner
       THEN /\ inner' = [inner EXCEPT ![id] = service_inner(inner[id], now)]
            /\ last' = Called("service", id, <<TRUE>>,
                           <<inner[id].destroy, SessionData_validate(inner[id], now)>>)
       ELSE /\ inner' = inner
            /\ last' = Called("service", id, <<FALSE>>, Unit)
    /\ UNCHANGED <<client, db, timers, now>>

\* the shape of renew, destroy, set_longterm, set_store, set, remove and
\* clear_session_data: get_mut, then the SessionData method, else a warning
renew(id) ==
    /\ IF id \in DOMAIN inner
       THEN inner' = [inner EXCEPT ![id] = SessionData_renew(inner[id])]
       ELSE inner' = inner
    /\ last' = Called("renew", id, Unit, Unit)
    /\ UNCHANGED <<client, db, timers, now>>

\* destroy that clears the record at once
destroy_eager(id) ==
    /\ IF id \in DOMAIN inner
       THEN inner' = [inner EXCEPT ![id] = SessionData_clear(SessionData_destroy(inner[id]))]
       ELSE inner' = inner
    /\ last' = Called("destroy", id, Unit, Unit)
    /\ UNCHANGED <<client, db, timers, now>>

destroy(id) ==
    /\ IF id \in DOMAIN inner
       THEN inner' = [inner EXCEPT ![id] = SessionData_destroy(inner[id])]
       ELSE inner' = inner
    /\ last' = Called("destroy", id, Unit, Unit)
    /\ UNCHANGED <<client, db, timers, now>>

set_longterm(id, longterm) ==
    /\ IF id \in DOMAIN inner
       THEN inner' = [inner EXCEPT ![id] = SessionData_set_longterm(inner[id], longterm)]
       ELSE inner' = inner
    /\ last' = Called("set_longterm", id, Unit, Unit)
    /\ UNCHANGED <<client, db, timers, now>>

set_store(id, storable) ==
    /\ IF id \in DOMAIN inner
       THEN inner' = [inner EXCEPT ![id] = SessionData_set_store(inner[id], storable)]
       ELSE inner' = inner
    /\ last' = Called("set_store", id, Unit, Unit)
    /\ UNCHANGED <<client, db, timers, now>>

get(id, key) ==
    /\ IF id \in DOMAIN inner
       THEN last' = Called("get", id, SessionData_get(inner[id], key), Unit)
       ELSE last' = Called("get", id, <<>>, Unit)
    /\ UNCHANGED <<client, inner, db, timers, now>>

get_remove(id, key) ==
    /\ IF id \in DOMAIN inner
       THEN /\ inner' = [inner EXCEPT ![id] = SessionData_remove(inner[id], key)]
            /\ last' = Called("get_remove", id, SessionData_get(inner[id], key), Unit)
       ELSE /\ inner' = inner
            /\ last' = Called("get_remove", id, <<>>, Unit)
    /\ UNCHANGED <<client, db, timers, now>>

\* set through the entry API: a missing id gets a fresh record
set_upsert(id, key, value) ==
    /\ IF id \in DOMAIN inner
       THEN inner' = [inner EXCEPT ![id] = SessionData_set(inner[id], key, value)]
       ELSE inner' = [i \in DOMAIN inner \cup {id} |->
                        IF i = id
                        THEN SessionData_set(SessionData_new(id, TRUE, now), key, value)
                        ELSE inner[i]]
    /\ last' = Called("set", id, Unit, Unit)
    /\ UNCHANGED <<client, db, timers, now>>

\* set that also refreshes autoremove, as service_session_data does
set_touch(id, key, value) ==
    /\ IF id \in DOMAIN inner
       THEN inner' = [inner EXCEPT ![id] =
                        [SessionData_set(inner[id], key, value)
                            EXCEPT !.autoremove = now + MemoryLifespan]]
       ELSE inner' = inner
    /\ last' = Called("set", id, Unit, Unit)
    /\ UNCHANGED <<client, db, timers, now>>

set(id, key, value) ==
    /\ IF id \in DOMAIN inner
       THEN inner' = [inner EXCEPT ![id] = SessionData_set(inner[id], key, value)]
       ELSE inner' = inner
    /\ last' = Called("set", id, Unit, Unit)
    /\ UNCHANGED <<client, db, timers, now>>

remove(id, key) ==
    /\ IF id \in DOMAIN inner
       THEN inner' = [inner EXCEPT ![id] = SessionData_remove(inner[id], key)]
       ELSE inner' = inner
    /\ last' = Called("remove", id, Unit, Unit)
    /\ UNCHANGED <<client, db, timers, now>>

\* clear_session_data that clears the data of every record of the map
clear_session_data_all(id) ==
    /\ IF id \in DOMAIN inner
       THEN inner' = [i \in DOMAIN inner |-> SessionData_clear(inner[i])]
       ELSE inner' = inner
    /\ last' = Called("clear_session_data", id, Unit, Unit)
    /\ UNCHANGED <<client, db, timers, now>>

clear_session_data(id) ==
    /\ IF id \in DOMAIN inner
       THEN inner' = [inner EXCEPT ![id] = SessionData_clear(inner[id])]
       ELSE inner' = inner
    /\ last' = Called("clear_session_data", id, Unit, Unit)
    /\ UNCHANGED <<client, db, timers, now>>

\* ------------------------------------------------------ the backend calls
\* Result<_, SessionError>
Ok(v) == <<"Ok", v>>
Err == <<"Err">>

\* what a call learnt from the DatabasePool: nothing without a client
Backend(ok) == IF client THEN (IF ok THEN <<"Ok">> ELSE <<"Err">>) ELSE Unit

\* a failed serde_json::from_str, as SessionError::SerdeJson
DecodeErr == <<"Err", "SerdeJson">>

\* session.expires.unix_timestamp(): the whole units below the instant
unix_timestamp(t) == t \div Resolution

\* serde_json::to_string(session): the record's fields in declaration order
session_to_string(rec) ==
    <<rec.id, rec.data, rec.expires, rec.autoremove, rec.destroy, rec.renew,
      rec.longterm, rec.storable>>

\* serde_json::from_str(&session): Some(record) as <<record>>, a failure as <<>>
session_from_str(s) ==
    IF Len(s) = 8
    THEN <<[id |-> s[1], data |-> s[2], expires |-> s[3], autoremove |-> s[4],
            destroy |-> s[5], renew |-> s[6], longterm |-> s[7],
            storable |-> s[8]]>>
    ELSE <<>>

\* a payload that is no SessionData
Garbage == <<"?">>

NoRows == [i \in {} |-> 0]

\* count() falling back to the map's length without a client
count_result_len(ok) ==
    IF client
    THEN IF ok THEN Ok(Cardinality(DOMAIN db)) ELSE Err
    ELSE Ok(Cardinality(DOMAIN inner))

\* lines 177-184: the value of count() when the client answers (ok) or fails
count_result(ok) ==
    IF client
    THEN IF ok THEN Ok(Cardinality(DOMAIN db)) ELSE Err
    ELSE Ok(0)

count(ok) ==
    /\ last' = Called("count", "", count_result(ok), Backend(ok))
    /\ UNCHANGED <<client, inner, db, timers, now>>

\* count_sessions() without the is_persistent() test
count_sessions_result_db(ok) ==
    IF count_result(ok)[1] = "Ok" THEN count_result(ok)[2] ELSE 0

\* count_sessions() with unwrap_or(self.inner.len())
count_sessions_result_len(ok) ==
    IF is_persistent
    THEN IF count_result(ok)[1] = "Ok" THEN count_result(ok)[2]
         ELSE Cardinality(DOMAIN inner)
    ELSE Cardinality(DOMAIN inner)

\* lines 446-452: the value of count_sessions()
count_sessions_result(ok) ==
    IF is_persistent
    THEN IF count_result(ok)[1] = "Ok" THEN count_result(ok)[2] ELSE 0
    ELSE Cardinality(DOMAIN inner)

count_sessions(ok) ==
    /\ last' = Called("count_sessions", "", <<count_sessions_result(ok)>>, Backend(ok))
    /\ UNCHANGED <<client, inner, db, timers, now>>

\* initiate that takes a missing client for a failure
initiate_strict(ok) ==
    /\ last' = Called("initiate", "", IF ~client \/ ~ok THEN Err ELSE Ok(Unit), Backend(ok))
    /\ UNCHANGED <<client, inner, db, timers, now>>

initiate(ok) ==
    /\ last' = Called("initiate", "", IF client /\ ~ok THEN Err ELSE Ok(Unit), Backend(ok))
    /\ UNCHANGED <<client, inner, db, timers, now>>

\* delete_by_expiry: the rows whose expiry has passed go
cleanup(ok) ==
    /\ IF client /\ ok
       THEN db' = [i \in {j \in DOMAIN db : ~(db[j].expires < unix_timestamp(now))} |-> db[i]]
       ELSE db' = db
    /\ last' = Called("cleanup", "", IF client /\ ~ok THEN Err ELSE Ok(Unit), Backend(ok))
    /\ UNCHANGED <<client, inner, timers, now>>

\* store_session that calls client.store again when the first call failed
store_session_retry(id, ok) ==
    /\ id \in DOMAIN inner
    /\ IF client
       THEN db' = [i \in DOMAIN db \cup {id} |->
                     IF i = id
                     THEN [session |-> session_to_string(inner[id]),
                           expires |-> unix_timestamp(inner[id].expires)]
                     ELSE db[i]]
       ELSE db' = db
    /\ last' = Called("store_session", id, Ok(Unit),
                      IF client /\ ~ok THEN <<"Err", "Ok">> ELSE Backend(ok))
    /\ UNCHANGED <<client, inner, timers, now>>

\* store_session that passes session.autoremove for the expiry
store_session_autoremove(id, ok) ==
    /\ id \in DOMAIN inner
    /\ IF client /\ ok
       THEN db' = [i \in DOMAIN db \cup {id} |->
                     IF i = id
                     THEN [session |-> session_to_string(inner[id]),
                           expires |-> unix_timestamp(inner[id].autoremove)]
                     ELSE db[i]]
       ELSE db' = db
    /\ last' = Called("store_session", id, IF client /\ ~ok THEN Err ELSE Ok(Unit), Backend(ok))
    /\ UNCHANGED <<client, inner, timers, now>>

\* store_session(&session) with the resident record of id as the session
store_session(id, ok) ==
    /\ id \in DOMAIN inner
    /\ IF client /\ ok
       THEN db' = [i \in DOMAIN db \cup {id} |->
                     IF i = id
                     THEN [session |-> session_to_string(inner[id]),
                           expires |-> unix_timestamp(inner[id].expires)]
                     ELSE db[i]]
       ELSE db' = db
    /\ last' = Called("store_session", id, IF client /\ ~ok THEN Err ELSE Ok(Unit), Backend(ok))
    /\ UNCHANGED <<client, inner, timers, now>>

\* lines 211-220: the value of load_session(id)
load_result(id, ok) ==
    IF client
    THEN IF ~ok THEN Err
         ELSE IF id \notin DOMAIN db THEN Ok(<<>>)
         ELSE IF session_from_str(db[id].session) = <<>> THEN DecodeErr
         ELSE Ok(session_from_str(db[id].session))
    ELSE Ok(<<>>)

load_session(id, ok) ==
    /\ last' = Called("load_session", id, load_result(id, ok), Backend(ok))
    /\ UNCHANGED <<client, inner, db, timers, now>>

\* another process, or another version of the crate, writes a row
foreign_write(id, t) ==
    /\ client
    /\ db' = [i \in DOMAIN db \cup {id} |->
                 IF i = id THEN [session |-> Garbage, expires |-> t] ELSE db[i]]
    /\ last' = Called("foreign_write", id, Unit, Unit)
    /\ UNCHANGED <<client, inner, timers, now>>

destroy_session(id, ok) ==
    /\ IF client /\ ok
       THEN db' = [i \in DOMAIN db \ {id} |-> db[i]]
       ELSE db' = db
    /\ last' = Called("destroy_session", id, IF client /\ ~ok THEN Err ELSE Ok(Unit), Backend(ok))
    /\ UNCHANGED <<client, inner, timers, now>>

clear_store(ok) ==
    /\ IF client /\ ok
       THEN db' = NoRows
       ELSE db' = db
    /\ last' = Called("clear_store", "", IF client /\ ~ok THEN Err ELSE Ok(Unit), Backend(ok))
    /\ UNCHANGED <<client, inner, timers, now>>

\* ------------------------------------------------------- specifications
\* the record's life in memory, with the clock
Next ==
    /\ UNCHANGED cvars
    /\ \/ Tick
       \/ \E id \in Ids : insert(id, TRUE)
       \/ clear
       \/ \E id \in Ids : service_session_data(id)
       \/ \E id \in Ids : destroy(id)
       \/ \E id \in Ids, b \in BOOLEAN : set_longterm(id, b)
       \/ \E id \in Ids, k \in Keys : get(id, k)
       \/ \E id \in Ids, k \in Keys : get_remove(id, k)
       \/ \E id \in Ids, k \in Keys, v \in Vals : set(id, k, v)
       \/ \E id \in Ids, k \in Keys : remove(id, k)
       \/ \E id \in Ids : clear_session_data(id)

Spec == Init /\ [][Next]_vars

\* every per-id call of the store, at one instant
NextPass ==
    /\ UNCHANGED cvars
    /\ \/ \E id \in Ids, s \in BOOLEAN : insert(id, s)
       \/ clear
       \/ \E id \in Ids : service_session_data(id)
       \/ \E id \in Ids : renew(id)
       \/ \E id \in Ids : destroy(id)
       \/ \E id \in Ids, b \in BOOLEAN : set_longterm(id, b)
       \/ \E id \in Ids, b \in BOOLEAN : set_store(id, b)
       \/ \E id \in Ids, k \in Keys : get(id, k)
       \/ \E id \in Ids, k \in Keys : get_remove(id, k)
       \/ \E id \in Ids, k \in Keys, v \in Vals : set(id, k, v)
       \/ \E id \in Ids, k \in Keys : remove(id, k)
       \/ \E id \in Ids : clear_session_data(id)

SpecPass == Init /\ [][NextPass]_vars

\* the calls that reach the database, over a cache that fills and empties
NextDb ==
    /\ UNCHANGED cvars
    /\ \/ Tick
       \/ \E id \in Ids : insert(id, TRUE)
       \/ clear
       \/ \E ok \in BOOLEAN : initiate(ok)
       \/ \E ok \in BOOLEAN : cleanup(ok)
       \/ \E ok \in BOOLEAN : count(ok)
       \/ \E ok \in BOOLEAN : count_sessions(ok)
       \/ \E id \in Ids, ok \in BOOLEAN : store_session(id, ok)
       \/ \E id \in Ids, ok \in BOOLEAN : destroy_session(id, ok)
       \/ \E ok \in BOOLEAN : clear_store(ok)
       \/ \E id \in Ids, ok \in BOOLEAN : load_session(id, ok)
       \/ \E id \in Ids : foreign_write(id, 0)

SpecDb == InitDb /\ [][NextDb]_vars

\* what the session layer persists and loads back, for one session
NextStore ==
    /\ UNCHANGED cvars
    /\ \/ Tick
       \/ \E id \in OneId : insert(id, TRUE)
       \/ \E id \in OneId, k \in Keys, v \in Vals : set(id, k, v)
       \/ \E id \in OneId, b \in BOOLEAN : set_store(id, b)
       \/ \E id \in OneId, ok \in BOOLEAN : store_session(id, ok)
       \/ \E id \in OneId, ok \in BOOLEAN : load_session(id, ok)

SpecStore == InitDb /\ [][NextStore]_vars

\* ------------------------------------------------------ the lazy sweeps
\* the clock advances as far as the first database sweep and beyond
Elapse ==
    /\ now < MaxSweepTime
    /\ now' = now + 1
    /\ last' = Called("tick", "", Unit, Unit)
    /\ UNCHANGED <<client, inner, db, timers>>

\* the in-memory sweep of a request cycle: when the recorded instant has
\* come, drop the records whose autoremove has passed and move the instant
\* on by the interval; saw tells whether the scan ran
sweep_memory ==
    /\ IF timers.last_expiry_sweep <= now
       THEN /\ inner' = [i \in {j \in DOMAIN inner : inner[j].autoremove > now} |-> inner[i]]
            /\ timers' = [timers EXCEPT !.last_expiry_sweep = now + MemorySweepInterval]
            /\ last' = Called("sweep_memory", "", Unit, <<TRUE>>)
       ELSE /\ UNCHANGED <<inner, timers>>
            /\ last' = Called("sweep_memory", "", Unit, <<FALSE>>)
    /\ UNCHANGED <<client, db, now>>

\* the database sweep of a request cycle: when the recorded instant has
\* come, run cleanup() and move the instant on by the interval
sweep_database(ok) ==
    /\ IF timers.last_database_expiry_sweep <= now
       THEN /\ db' = IF client /\ ok
                     THEN [i \in {j \in DOMAIN db : ~(db[j].expires < unix_timestamp(now))} |-> db[i]]
                     ELSE db
            /\ timers' = [timers EXCEPT !.last_database_expiry_sweep = now + DatabaseSweepInterval]
            /\ last' = Called("sweep_database", "", Unit, <<TRUE>>)
       ELSE /\ UNCHANGED <<db, timers>>
            /\ last' = Called("sweep_database", "", Unit, <<FALSE>>)
    /\ UNCHANGED <<client, inner, now>>

NextSweep ==
    /\ UNCHANGED cvars
    /\ \/ Elapse
       \/ \E id \in OneId : insert(id, TRUE)
       \/ \E id \in OneId : store_session(id, TRUE)
       \/ sweep_memory
       \/ \E ok \in BOOLEAN : sweep_database(ok)

SpecSweep == InitDb /\ [][NextSweep]_vars

\* clearing the map and clearing the table, with service watching the map
NextClear ==
    /\ UNCHANGED cvars
    /\ \/ Tick
       \/ \E id \in Ids : insert(id, TRUE)
       \/ clear
       \/ \E id \in Ids : service_session_data(id)
       \/ \E id \in Ids, ok \in BOOLEAN : store_session(id, ok)
       \/ \E id \in Ids, ok \in BOOLEAN : destroy_session(id, ok)
       \/ \E ok \in BOOLEAN : clear_store(ok)

SpecClear == InitDb /\ [][NextClear]_vars

\* ------------------------------------------------- concurrent callers
\* self.inner.get_mut(&id) returns once no other RefMut of the entry lives
get_mut_ready(id) == guard[id] = "free"

\* a String half overwritten by another: the first character is the new one
half_written(old, str) ==
    IF Len(old) = 2 THEN <<str[1], old[2]>> ELSE <<str[1]>>

\* the session layer inserts a record for an id it did not find
insert_absent(id) ==
    /\ id \notin DOMAIN inner
    /\ get_mut_ready(id)
    /\ inner' = [i \in DOMAIN inner \cup {id} |->
                    IF i = id THEN SessionData_new(id, TRUE, now) ELSE inner[i]]
    /\ UNCHANGED <<guard, pc, call, writes>>

\* set that writes the map without taking the entry's RefMut
set_start_unguarded(c, id, key, value) ==
    /\ pc[c] = "idle"
    /\ writes < MaxWrites
    /\ IF id \in DOMAIN inner
       THEN /\ inner' = [inner EXCEPT ![id].data[key] = half_written(@, to_string(value))]
            /\ pc' = [pc EXCEPT ![c] = "set"]
            /\ call' = [call EXCEPT ![c] = CallOf("set", id, key, value, Unit, writes)]
       ELSE /\ call' = [call EXCEPT ![c] = CallOf("set", id, key, value, Unit, writes)]
            /\ UNCHANGED <<inner, pc>>
    /\ UNCHANGED <<guard, writes>>

\* set, lines 420-421: get_mut, and the String of the value starts to be
\* written into the HashMap
set_start(c, id, key, value) ==
    /\ pc[c] = "idle"
    /\ get_mut_ready(id)
    /\ writes < MaxWrites
    /\ IF id \in DOMAIN inner
       THEN /\ guard' = [guard EXCEPT ![id] = c]
            /\ inner' = [inner EXCEPT ![id].data[key] = half_written(@, to_string(value))]
            /\ pc' = [pc EXCEPT ![c] = "set"]
            /\ call' = [call EXCEPT ![c] = CallOf("set", id, key, value, Unit, writes)]
       ELSE /\ call' = [call EXCEPT ![c] = CallOf("set", id, key, value, Unit, writes)]
            /\ UNCHANGED <<inner, guard, pc>>
    /\ UNCHANGED writes

\* set, lines 421-422: the write completes and the RefMut is dropped
set_finish(c) ==
    /\ pc[c] = "set"
    /\ inner' = [inner EXCEPT ![call[c].id] =
                    SessionData_set(@, call[c].key, call[c].val)]
    /\ writes' = writes + 1
    /\ call' = [call EXCEPT ![c].at = writes + 1]
    /\ guard' = [guard EXCEPT ![call[c].id] = IF @ = c THEN "free" ELSE @]
    /\ pc' = [pc EXCEPT ![c] = "idle"]

\* get, lines 396-397: get_mut, the read, and the RefMut is dropped
get_locked(c, id, key) ==
    /\ pc[c] = "idle"
    /\ get_mut_ready(id)
    /\ call' = [call EXCEPT ![c] =
                  CallOf("get", id, key, 0,
                         IF id \in DOMAIN inner
                         THEN SessionData_get(inner[id], key) ELSE <<>>,
                         writes)]
    /\ UNCHANGED <<inner, guard, pc, writes>>

\* get_remove as get(id, key) followed by remove(id, key): the RefMut is
\* dropped after the read
get_remove_read_unguarded(c, id, key) ==
    /\ pc[c] = "idle"
    /\ get_mut_ready(id)
    /\ writes < MaxWrites
    /\ IF id \in DOMAIN inner
       THEN /\ pc' = [pc EXCEPT ![c] = "get_remove"]
            /\ call' = [call EXCEPT ![c] =
                          CallOf("get_remove", id, key, inner[id].data[key],
                                 SessionData_get(inner[id], key), writes)]
       ELSE /\ call' = [call EXCEPT ![c] = CallOf("get_remove", id, key, NoVal, <<>>, writes)]
            /\ UNCHANGED pc
    /\ UNCHANGED <<inner, guard, writes>>

\* get_remove, lines 410-411: get_mut, and the read of the key
get_remove_read(c, id, key) ==
    /\ pc[c] = "idle"
    /\ get_mut_ready(id)
    /\ writes < MaxWrites
    /\ IF id \in DOMAIN inner
       THEN /\ guard' = [guard EXCEPT ![id] = c]
            /\ pc' = [pc EXCEPT ![c] = "get_remove"]
            /\ call' = [call EXCEPT ![c] =
                          CallOf("get_remove", id, key, inner[id].data[key],
                                 SessionData_get(inner[id], key), writes)]
       ELSE /\ call' = [call EXCEPT ![c] = CallOf("get_remove", id, key, NoVal, <<>>, writes)]
            /\ UNCHANGED <<guard, pc>>
    /\ UNCHANGED <<inner, writes>>

\* get_remove, lines 411-412: the delete of the key, and the RefMut is dropped
get_remove_delete(c) ==
    /\ pc[c] = "get_remove"
    /\ inner' = [inner EXCEPT ![call[c].id] = SessionData_remove(@, call[c].key)]
    /\ writes' = writes + 1
    /\ call' = [call EXCEPT ![c].at = writes + 1]
    /\ guard' = [guard EXCEPT ![call[c].id] = IF @ = c THEN "free" ELSE @]
    /\ pc' = [pc EXCEPT ![c] = "idle"]

\* remove, lines 429-430: get_mut, the delete, and the RefMut is dropped
remove_locked(c, id, key) ==
    /\ pc[c] = "idle"
    /\ get_mut_ready(id)
    /\ writes < MaxWrites
    /\ IF id \in DOMAIN inner
       THEN /\ inner' = [inner EXCEPT ![id] = SessionData_remove(@, key)]
            /\ writes' = writes + 1
            /\ call' = [call EXCEPT ![c] = CallOf("remove", id, key, 0, Unit, writes + 1)]
       ELSE /\ call' = [call EXCEPT ![c] = CallOf("remove", id, key, 0, Unit, writes)]
            /\ UNCHANGED <<inner, writes>>
    /\ UNCHANGED <<guard, pc>>

\* callers of one store that run at the same time
NextConc ==
    /\ UNCHANGED <<client, db, timers, now, last>>
    /\ \/ \E id \in Ids : insert_absent(id)
       \/ \E c \in Callers, id \in Ids, k \in Keys, v \in Vals : set_start(c, id, k, v)
       \/ \E c \in Callers : set_finish(c)
       \/ \E c \in Callers, id \in Ids, k \in Keys : get_locked(c, id, k)
       \/ \E c \in Callers, id \in Ids, k \in Keys : get_remove_read(c, id, k)
       \/ \E c \in Callers : get_remove_delete(c)
       \/ \E c \in Callers, id \in Ids, k \in Keys : remove_locked(c, id, k)

SpecConc == Init /\ [][NextConc]_vars

\* destroy, lines 369-370: get_mut, the flag is set, and the RefMut is dropped
destroy_locked(c, id) ==
    /\ pc[c] = "idle"
    /\ get_mut_ready(id)
    /\ destroy(id)
    /\ call' = [call EXCEPT ![c] = CallOf("destroy", id, "", 0, Unit, writes)]
    /\ UNCHANGED <<guard, pc, writes>>

\* set_longterm, lines 378-379
set_longterm_locked(c, id, longterm) ==
    /\ pc[c] = "idle"
    /\ get_mut_ready(id)
    /\ set_longterm(id, longterm)
    /\ UNCHANGED cvars

\* service that does not wait for the entry's RefMut
service_unlocked(c, id) ==
    /\ pc[c] = "idle"
    /\ service_session_data(id)
    /\ UNCHANGED cvars

\* service_session_data, lines 345-352: get_mut, the record is serviced, and
\* the RefMut is dropped
service_locked(c, id) ==
    /\ pc[c] = "idle"
    /\ get_mut_ready(id)
    /\ service_session_data(id)
    /\ UNCHANGED cvars

\* callers that destroy, write and service one record at the same time
NextLazy ==
    \/ /\ UNCHANGED <<client, db, timers, now, last>>
       /\ \/ \E id \in OneId : insert_absent(id)
          \/ \E c \in Callers, id \in OneId, k \in Keys, v \in Vals : set_start(c, id, k, v)
          \/ \E c \in Callers : set_finish(c)
          \/ \E c \in Callers, id \in OneId, k \in Keys : get_locked(c, id, k)
    \/ \E c \in Callers, id \in OneId : destroy_locked(c, id)
    \/ \E c \in Callers, id \in OneId, b \in BOOLEAN : set_longterm_locked(c, id, b)
    \/ \E c \in Callers, id \in OneId : service_locked(c, id)

SpecLazy == Init /\ [][NextLazy]_vars

\* self.inner.get_mut(&id) on a resident id: the caller holds the RefMut
get_mut(c, id) ==
    /\ pc[c] = "idle"
    /\ get_mut_ready(id)
    /\ id \in DOMAIN inner
    /\ guard' = [guard EXCEPT ![id] = c]
    /\ pc' = [pc EXCEPT ![c] = "held"]
    /\ UNCHANGED <<client, inner, db, timers, now, last, call, writes>>

\* the body of `if let Some(..) = self.inner.get_mut(&id)`: the method runs
\* on the held record and the RefMut is dropped, or the id is absent and
\* the else branch runs
with_ref(c, id, body) ==
    \/ /\ pc[c] = "held"
       /\ guard[id] = c
       /\ body
       /\ guard' = [guard EXCEPT ![id] = "free"]
       /\ pc' = [pc EXCEPT ![c] = "idle"]
       /\ UNCHANGED <<call, writes>>
    \/ /\ pc[c] = "idle"
       /\ id \notin DOMAIN inner
       /\ body
       /\ UNCHANGED cvars

\* the session layer inserts a record for an id it did not find
insert_locked(id) ==
    /\ id \notin DOMAIN inner
    /\ get_mut_ready(id)
    /\ insert(id, TRUE)
    /\ UNCHANGED cvars

\* the ten per-id calls of the store, made by callers at the same time
NextShared ==
    \/ \E id \in Ids : insert_locked(id)
    \/ \E c \in Callers, id \in Ids : get_mut(c, id)
    \/ \E c \in Callers, id \in Ids : with_ref(c, id, service_session_data(id))
    \/ \E c \in Callers, id \in Ids : with_ref(c, id, renew(id))
    \/ \E c \in Callers, id \in Ids : with_ref(c, id, destroy(id))
    \/ \E c \in Callers, id \in Ids, b \in BOOLEAN : with_ref(c, id, set_longterm(id, b))
    \/ \E c \in Callers, id \in Ids, b \in BOOLEAN : with_ref(c, id, set_store(id, b))
    \/ \E c \in Callers, id \in Ids, k \in Keys : with_ref(c, id, get(id, k))
    \/ \E c \in Callers, id \in Ids, k \in Keys : with_ref(c, id, get_remove(id, k))
    \/ \E c \in Callers, id \in Ids, k \in Keys, v \in Vals : with_ref(c, id, set(id, k, v))
    \/ \E c \in Callers, id \in Ids, k \in Keys : with_ref(c, id, remove(id, k))
    \/ \E c \in Callers, id \in Ids : with_ref(c, id, clear_session_data(id))

SpecShared == Init /\ [][NextShared]_vars

\* ------------------------------------------------------------- the claims
PassThroughs ==
    {"service", "get", "get_remove", "set", "remove", "clear_session_data",
     "renew", "destroy", "set_longterm", "set_store"}

DataCalls == {"get", "get_remove", "set", "remove", "clear_session_data"}

\* the step is a call of op on id
Calls(op, id) == last'.op = op /\ last'.id = id

\* C1: a call on an id that is not resident changes nothing in the map and
\* raises nothing: service returns false, get and get_remove return None,
\* the other pass-throughs return unit
C1_AbsentIdIsNoOp ==
    [][\A id \in Ids \ DOMAIN inner :
        (last'.id = id /\ last'.op \in PassThroughs) =>
            /\ inner' = inner
            /\ last'.ret = (IF last'.op = "service" THEN <<FALSE>> ELSE <<>>)]_vars

C1_Witness ==
    /\ last.op = "set"
    /\ last.id \notin DOMAIN inner
    /\ DOMAIN inner # {}

\* C2: destroy sets the destroy flag of a resident record, no call on another
\* id changes the record, and service on a record whose destroy flag is set
\* returns true and leaves data empty, destroy false and longterm false
C2_DestroyThenService ==
    [][\A id \in DOMAIN inner :
        /\ Calls("destroy", id) => (id \in DOMAIN inner' /\ inner'[id].destroy)
        /\ (last'.op \in PassThroughs /\ last'.id # id) =>
              (id \in DOMAIN inner' /\ inner'[id] = inner[id])
        /\ (inner[id].destroy /\ Calls("service", id)) =>
              /\ last'.ret = <<TRUE>>
              /\ inner'[id].data = EmptyData
              /\ ~inner'[id].destroy
              /\ ~inner'[id].longterm]_vars

C2_Witness ==
    /\ last.op = "service"
    /\ last.ret = <<TRUE>>
    /\ last.saw = <<TRUE, TRUE>>
    /\ inner[last.id].data = EmptyData
    /\ ~inner[last.id].destroy
    /\ ~inner[last.id].longterm

\* C3: service on a record that is expired (expires <= now) or destroyed
\* leaves one and the same record: the one it found with data empty,
\* destroy false, longterm false and autoremove = now + memory lifespan
C3_ExpiryClearsAsDestroy ==
    [][\A id \in DOMAIN inner :
        (Calls("service", id) /\ (inner[id].expires <= now \/ inner[id].destroy)) =>
            inner'[id] = [inner[id] EXCEPT !.data = EmptyData,
                                           !.destroy = FALSE,
                                           !.longterm = FALSE,
                                           !.autoremove = now + MemoryLifespan]]_vars

C3_Witness ==
    /\ last.op = "service"
    /\ last.ret = <<TRUE>>
    /\ last.saw = <<FALSE, FALSE>>
    /\ inner[last.id].expires <= now
    /\ inner[last.id].data = EmptyData

\* C4 as claimed: every service that returns true sets autoremove to
\* now + memory lifespan, strictly above the value it had
C4_StrictlyIncreases ==
    [][\A id \in DOMAIN inner :
        Calls("service", id) =>
            /\ inner'[id].autoremove = now + MemoryLifespan
            /\ inner'[id].autoremove > inner[id].autoremove]_vars

\* C4: every service that returns true sets autoremove to now + memory
\* lifespan, which is never below the value it had
C4_Refreshed ==
    [][\A id \in DOMAIN inner :
        Calls("service", id) =>
            /\ last'.ret = <<TRUE>>
            /\ inner'[id].autoremove = now + MemoryLifespan
            /\ inner'[id].autoremove >= inner[id].autoremove]_vars

C4_Witness ==
    /\ last.op = "service"
    /\ last.ret = <<TRUE>>
    /\ last.saw = <<FALSE, TRUE>>
    /\ now > 0
    /\ inner[last.id].autoremove = now + MemoryLifespan

C6_GetRemoveIsAtomic ==
    \A c \in Callers :
        /\ pc[c] = "get_remove" =>
              /\ call[c].id \in DOMAIN inner
              /\ inner[call[c].id].data[call[c].key] = call[c].val
        /\ (call[c].op = "get_remove" /\ call[c].found) =>
              call[c].ret = from_str(call[c].val)
        /\ (call[c].op = "get_remove" /\ call[c].found /\ pc[c] = "idle"
               /\ call[c].at = writes
               /\ \A d \in Callers : pc[d] = "set" => call[d].id # call[c].id) =>
              inner[call[c].id].data[call[c].key] = NoVal

\* a get_remove that returned 11, then the set of 22 that had to wait for it
C6_Witness ==
    \E c, d \in Callers :
        /\ pc[c] = "idle" /\ pc[d] = "idle"
        /\ call[c].op = "get_remove" /\ call[c].ret = <<11>>
        /\ call[d].op = "set" /\ call[d].val = 22
        /\ call[d].id = call[c].id /\ call[d].key = call[c].key
        /\ call[d].at = call[c].at + 1
        /\ inner[call[c].id].data[call[c].key] = to_string(22)

\* C7: every get returns None or a whole value that was set, two gets of a
\* key with no write between them return the same, and once a set is the
\* last write to the map the key holds its value
C7_SetsAreWholeAndAgreed ==
    /\ \A c \in Callers :
          call[c].op = "get" => call[c].ret \in {<<>>} \cup {<<v>> : v \in Vals}
    /\ \A c, d \in Callers :
          (call[c].op = "get" /\ call[d].op = "get" /\ call[c].id = call[d].id
              /\ call[c].key = call[d].key /\ call[c].at = call[d].at) =>
             call[c].ret = call[d].ret
    /\ \A c \in Callers :
          (call[c].op = "set" /\ call[c].found /\ pc[c] = "idle"
              /\ call[c].at = writes
              /\ \A d \in Callers : pc[d] = "set" => call[d].id # call[c].id) =>
             inner[call[c].id].data[call[c].key] = to_string(call[c].val)

\* the two sets of one key have both completed, 11 first and 22 last
C7_Witness ==
    \E c, d \in Callers :
        /\ pc[c] = "idle" /\ pc[d] = "idle"
        /\ call[c].op = "set" /\ call[c].val = 11 /\ call[c].found
        /\ call[d].op = "set" /\ call[d].val = 22 /\ call[d].found
        /\ call[d].id = call[c].id /\ call[d].key = call[c].key
        /\ call[d].at = call[c].at + 1
        /\ inner[call[c].id].data[call[c].key] = to_string(22)

\* C8 as claimed: count() is the backend's count with a client and the
\* number of resident records without one
C8_CountsResidentWithoutClient ==
    last.op = "count" =>
        IF client
        THEN last.ret = (IF last.saw = <<"Ok">> THEN Ok(Cardinality(DOMAIN db)) ELSE Err)
        ELSE last.ret = Ok(Cardinality(DOMAIN inner))

\* C8: count() is the backend's count with a client, its error when the
\* backend fails, and Ok(0) without a client whatever the map holds
C8_CountIsZeroWithoutClient ==
    last.op = "count" =>
        IF client
        THEN last.ret = (IF last.saw = <<"Ok">> THEN Ok(Cardinality(DOMAIN db)) ELSE Err)
        ELSE last.ret = Ok(0)

C8_Witness ==
    /\ last.op = "count"
    /\ ~client
    /\ DOMAIN inner # {}
    /\ last.ret = Ok(0)

\* C9: without a client count_sessions() is the number of resident records
C9_CountSessionsIsResident ==
    (last.op = "count_sessions" /\ ~client) =>
        last.ret = <<Cardinality(DOMAIN inner)>>

C9_Witness ==
    /\ last.op = "count_sessions"
    /\ ~client
    /\ now > 0
    /\ last.ret = <<1>>
    /\ Cardinality(DOMAIN inner) = 1

\* C10: with a client count_sessions() is the backend's count, and 0 when
\* the backend fails, whatever the map holds
C10_CountSessionsNeverFails ==
    (last.op = "count_sessions" /\ client) =>
        last.ret = (IF last.saw = <<"Ok">> THEN <<Cardinality(DOMAIN db)>> ELSE <<0>>)

C10_Witness ==
    /\ last.op = "count_sessions"
    /\ client
    /\ last.saw = <<"Err">>
    /\ last.ret = <<0>>
    /\ Cardinality(DOMAIN inner) = 2
    /\ Cardinality(DOMAIN db) = 1

\* C11: store_session on a record whose storable flag is false makes no
\* backend call and writes no row
C11_NonStorableNeverStored ==
    [][\A id \in DOMAIN inner :
        (Calls("store_session", id) /\ ~inner[id].storable) =>
            (db' = db /\ last'.saw = Unit)]_vars

BackendCalls ==
    {"initiate", "cleanup", "count", "load_session", "store_session",
     "destroy_session", "clear_store"}

\* C13: clear leaves the map empty and the table as it was, an id comes
\* back only by insert and service returns false for it until then; clear_store and
\* destroy_session leave the map as it was and, when the backend answers,
\* delete every row, or the row of the id and no other
C13_ClearFrames ==
    [][/\ last'.op = "clear" => (DOMAIN inner' = {} /\ db' = db)
       /\ \A id \in Ids :
             /\ (id \in DOMAIN inner' \ DOMAIN inner) => Calls("insert", id)
             /\ Calls("service", id) => last'.ret = <<id \in DOMAIN inner>>
       /\ last'.op \in {"clear_store", "destroy_session"} => inner' = inner
       /\ (last'.op = "clear_store" /\ last'.saw = <<"Ok">>) => DOMAIN db' = {}
       /\ (last'.op = "destroy_session" /\ last'.saw = <<"Ok">>) =>
             /\ DOMAIN db' = DOMAIN db \ {last'.id}
             /\ \A i \in DOMAIN db' : db'[i] = db[i]]_vars

C13_Witness ==
    /\ last.op = "clear"
    /\ now > 0
    /\ client
    /\ DOMAIN inner = {}
    /\ Cardinality(DOMAIN db) = 2

\* C14: without a client initiate, cleanup, destroy_session, clear_store and
\* store_session return Ok(()) and load_session returns Ok(None); none of
\* them calls a backend or changes the map, the table or the timers
C14_NoClientNoEffect ==
    [][(~client /\ last'.op \in BackendCalls \ {"count"}) =>
          /\ last'.ret = (IF last'.op = "load_session" THEN Ok(<<>>) ELSE Ok(Unit))
          /\ last'.saw = Unit
          /\ inner' = inner
          /\ db' = db
          /\ timers' = timers]_vars

C14_Witness ==
    /\ ~client
    /\ last.op = "store_session"
    /\ last.ret = Ok(Unit)
    /\ last.id \in DOMAIN inner
    /\ DOMAIN db = {}

\* C15: with a client each backend operation makes one backend call, leaves
\* the map as it was, and returns the backend's error with the table as it
\* was when that call fails; load_session returns Ok(None) for a missing row
\* and the serde error, not the backend's, for a payload that does not decode
C15_OneCallErrorsReturned ==
    [][(client /\ last'.op \in BackendCalls) =>
          /\ Len(last'.saw) = 1
          /\ inner' = inner
          /\ last'.saw = <<"Err">> => (last'.ret = Err /\ db' = db)
          /\ last'.saw = <<"Ok">> => last'.ret[1] = "Ok" \/ last'.op = "load_session"
          /\ (last'.op = "load_session" /\ last'.saw = <<"Ok">>) =>
                last'.ret = (IF last'.id \notin DOMAIN db THEN Ok(<<>>)
                             ELSE IF db[last'.id].session = Garbage THEN DecodeErr
                             ELSE Ok(session_from_str(db[last'.id].session)))]_vars

C15_Witness ==
    /\ client
    /\ last.op = "load_session"
    /\ last.saw = <<"Ok">>
    /\ last.ret = DecodeErr
    /\ last.ret # Err

\* C16: a sweep call made before the recorded instant scans nothing and
\* leaves the map, the table and the timers as they were; a scan moves its
\* instant past now, so the call that follows a memory sweep never scans; no
\* memory scan runs before FirstExpirySweep and no database scan before
\* FirstDatabaseExpirySweep
C16_SweepIdempotent ==
    [][/\ (last'.op = "sweep_memory" /\ timers.last_expiry_sweep > now) =>
             (last'.saw = <<FALSE>> /\ inner' = inner /\ timers' = timers)
       /\ (last'.op = "sweep_database" /\ timers.last_database_expiry_sweep > now) =>
             (last'.saw = <<FALSE>> /\ db' = db /\ timers' = timers)
       /\ (last.op = "sweep_memory" /\ last'.op = "sweep_memory") =>
             (last'.saw = <<FALSE>> /\ inner' = inner /\ timers' = timers)
       /\ (last'.op = "sweep_memory" /\ last'.saw = <<TRUE>>) =>
             /\ now >= FirstExpirySweep
             /\ timers'.last_expiry_sweep = now + MemorySweepInterval
             /\ timers'.last_database_expiry_sweep = timers.last_database_expiry_sweep
       /\ (last'.op = "sweep_database" /\ last'.saw = <<TRUE>>) =>
             /\ now >= FirstDatabaseExpirySweep
             /\ timers'.last_database_expiry_sweep = now + DatabaseSweepInterval
             /\ timers'.last_expiry_sweep = timers.last_expiry_sweep]_vars

C16_Witness ==
    /\ last.op = "sweep_memory"
    /\ last.saw = <<FALSE>>
    /\ timers.last_expiry_sweep > now
    /\ timers.last_expiry_sweep # FirstExpirySweep
    /\ timers.last_database_expiry_sweep # FirstDatabaseExpirySweep
    /\ DOMAIN inner = {}
    /\ DOMAIN db = {}

\* C17: destroy changes the destroy flag of the record and nothing else, a
\* second destroy changes nothing, and a get on a record whose destroy flag
\* is set returns the value the key holds
C17_DestroyIsLazy ==
    [][\A id \in DOMAIN inner :
        /\ Calls("destroy", id) =>
              /\ inner' = [inner EXCEPT ![id].destroy = TRUE]
              /\ inner[id].destroy => inner' = inner
        /\ (inner[id].destroy /\ Calls("get", id)) =>
              /\ last'.ret = from_str(inner[id].data["k"])
              /\ inner' = inner]_vars

C17_Witness ==
    /\ last.op = "get"
    /\ last.id \in DOMAIN inner
    /\ inner[last.id].destroy
    /\ inner[last.id].longterm
    /\ last.ret = <<11>>

\* C18: service on a record with expires > now and destroy false changes
\* autoremove and nothing else; service on any record leaves expires,
\* storable and id as they were, so an expired record stays expired and is
\* left cleared by every service; no call but insert changes expires
C18_ServiceFrame ==
    [][\A id \in DOMAIN inner :
        /\ Calls("service", id) =>
              /\ inner'[id].expires = inner[id].expires
              /\ inner'[id].storable = inner[id].storable
              /\ inner'[id].id = inner[id].id
              /\ (inner[id].expires > now /\ ~inner[id].destroy) =>
                    inner' = [inner EXCEPT ![id].autoremove = now + MemoryLifespan]
              /\ inner[id].expires <= now =>
                    /\ ~SessionData_validate(inner'[id], now)
                    /\ inner'[id].data = EmptyData
        /\ (id \in DOMAIN inner' /\ ~Calls("insert", id)) =>
              inner'[id].expires = inner[id].expires]_vars

C18_Witness ==
    /\ last.op = "service"
    /\ last.saw = <<FALSE, TRUE>>
    /\ inner[last.id].data # EmptyData
    /\ inner[last.id].longterm
    /\ inner[last.id].autoremove = now + MemoryLifespan
    /\ inner[last.id].autoremove = inner[last.id].expires

\* C19: the destroy flag of a record is reset by service alone, whatever is
\* written in between; the service that finds it set runs while no set of
\* that record is under way and leaves data empty and longterm false, and a
\* get of an empty key returns None; the service that finds a live record
\* with the flag not set leaves data and longterm as they are
C19_WritesAfterDestroyAreDiscarded ==
    [][\A id \in DOMAIN inner :
        /\ (inner[id].destroy /\ ~inner'[id].destroy) =>
              (cvars' = cvars /\ Calls("service", id))
        /\ (cvars' = cvars /\ Calls("service", id) /\ inner[id].destroy) =>
              /\ \A c \in Callers : pc[c] = "set" => call[c].id # id
              /\ inner'[id].data = EmptyData
              /\ ~inner'[id].longterm
        /\ \A c \in Callers :
              (call'[c] # call[c] /\ call'[c].op = "get" /\ call'[c].id = id
                  /\ inner[id].data = EmptyData) => call'[c].ret = <<>>
        /\ (cvars' = cvars /\ Calls("service", id) /\ ~inner[id].destroy
               /\ inner[id].expires > now) =>
              /\ inner'[id].data = inner[id].data
              /\ inner'[id].longterm = inner[id].longterm]_vars

\* destroy, then the set of 11 by another caller, then the service that
\* found the flag set and left the key empty
C19_Witness ==
    \E c, d \in Callers :
        /\ pc[c] = "idle" /\ pc[d] = "idle"
        /\ call[c].op = "destroy" /\ call[c].found
        /\ call[d].op = "set" /\ call[d].found /\ call[d].val = 11
        /\ call[d].id = call[c].id
        /\ call[d].at = call[c].at + 1
        /\ call[d].at = writes
        /\ last.op = "service" /\ last.id = call[c].id
        /\ last.saw = <<TRUE, TRUE>>
        /\ inner[last.id].data = EmptyData
        /\ ~inner[last.id].destroy

\* C20: a step of a per-id call made with one id leaves every other id as
\* it was, resident or not, with the record it had; no per-id call changes
\* the set of resident ids; a held record changes by its holder's step alone
C20_SessionIsolation ==
    [][/\ \A b \in Ids :
             (last'.op \in PassThroughs /\ last'.id # b) =>
                /\ b \in DOMAIN inner' <=> b \in DOMAIN inner
                /\ b \in DOMAIN inner => inner'[b] = inner[b]
       /\ last'.op \in PassThroughs => DOMAIN inner' = DOMAIN inner
       /\ \A c \in Callers, b \in Ids :
             (guard[b] = c /\ guard'[b] = c) => inner'[b] = inner[b]]_vars

\* both callers hold a record, one of each id, and the records differ
C20_Witness ==
    \E c, d \in Callers :
        /\ pc[c] = "held" /\ guard["A"] = c
        /\ pc[d] = "held" /\ guard["B"] = d
        /\ last.op = "set" /\ last.id = "B"
        /\ inner["B"].data = [k \in Keys |-> to_string(22)]
        /\ inner["A"].data = [k \in Keys |-> to_string(11)]
        /\ inner["A"].destroy /\ ~inner["B"].destroy
====
